---------------------------- MODULE Spec2Model ----------------------------
(***************************************************************************)
(* A model of the rratings rating engine: the three rating models          *)
(* (glicko.rs, glicko2.rs, ligcko2.rs), the player store and statistics    *)
(* (playerdb.rs) and the driver that feeds it (main.rs).                   *)
(*                                                                         *)
(* Numbers.  The program computes in f32.  An f32 is modelled by the       *)
(* integer  sign * (E * 2^23 + frac) : the IEEE-754 single-precision bit   *)
(* pattern without its sign bit, carrying the sign of the number.  E is    *)
(* the biased exponent (1..254 for normal numbers), frac the 23 fraction   *)
(* bits.  Order on these integers is the order on the numbers they stand   *)
(* for.  +, -, *, / and sqrt are rounded to nearest, ties to even, as the  *)
(* hardware does.  Two simplifications: there is one zero (no -0), and a   *)
(* result below the smallest normal number is flushed to zero.  exp and ln *)
(* are computed by range reduction and a polynomial, to within a few units *)
(* in the last place of the library's values.                              *)
(***************************************************************************)
EXTENDS Integers, Sequences, FiniteSets, TLC

Two23 == 2^23
Two24 == 2^24

Abs(x) == IF x < 0 THEN -x ELSE x
Sgn(x) == IF x < 0 THEN -1 ELSE 1

\* The special values of f32.
Inf == 255 * Two23
NaN == 255 * Two23 + 2^22

IsNaN(x) == Abs(x) > Inf
IsInf(x) == Abs(x) = Inf
ExpOf(x) == Abs(x) \div Two23
SigOf(x) == (Abs(x) % Two23) + Two23
IsZero(x) == ExpOf(x) = 0
F32Neg(x) == IF IsNaN(x) THEN NaN ELSE -x

\* The program evaluates v, and then w: a sequence of two statements.
Then(v, w) == IF v = v THEN w ELSE w

Pow2(n) == 2^n

\* The f32 of sign s, biased exponent e and 24-bit significand sig in
\* [2^23, 2^24): infinite when e is too large, zero when too small.
Pack(s, e, sig) ==
    IF e >= 255 THEN s * Inf
    ELSE IF e <= 0 THEN 0
    ELSE s * (e * Two23 + (sig - Two23))

\* The same, rounded up by one unit in the last place when up.
RoundPack(s, e, sig, up) ==
    IF up /\ sig + 1 = Two24 THEN Pack(s, e + 1, Two23)
    ELSE Pack(s, e, IF up THEN sig + 1 ELSE sig)

\* The same from a significand m with three guard bits, to nearest-even.
RoundGuard(s, e, m) ==
    RoundPack(s, e, m \div 8,
              m % 8 > 4 \/ (m % 8 = 4 /\ (m \div 8) % 2 = 1))

\* The same from n = <<m, e>>.
GuardPack(s, n) == RoundGuard(s, n[2], n[1])

\* Comparison operators of f32: every comparison with a NaN is false.
F32Lt(a, b) == ~IsNaN(a) /\ ~IsNaN(b) /\ a < b
F32Gt(a, b) == F32Lt(b, a)

\* f32::min and f32::max: when one operand is a NaN the other is returned.
F32Min(a, b) == IF IsNaN(a) THEN b ELSE IF IsNaN(b) THEN a ELSE IF a < b THEN a ELSE b
F32Max(a, b) == IF IsNaN(a) THEN b ELSE IF IsNaN(b) THEN a ELSE IF a > b THEN a ELSE b
F32Abs(x) == IF IsNaN(x) THEN NaN ELSE Abs(x)

\* The product rounded: phi >= 2^23 holds its significand when the product
\* is at least 2^47, else one more bit comes from plo.
MulRound(s, e, phi, plo) ==
    IF phi >= Two23
    THEN RoundPack(s, e - 126, phi,
                   plo > Two23 \/ (plo = Two23 /\ phi % 2 = 1))
    ELSE RoundPack(s, e - 127, phi * 2 + (plo \div Two23),
                   (plo % Two23) * 2 > Two23
                   \/ ((plo % Two23) * 2 = Two23
                       /\ (phi * 2 + (plo \div Two23)) % 2 = 1))

\* The 48-bit product p of the significands m1 and m2, from their 12-bit
\* halves: ll is low * low, mid the middle column of the long
\* multiplication with its carry in; then phi = p \div 2^24, plo = p % 2^24.
MulMid(s, e, m1, m2, ll, mid) ==
    MulRound(s, e, (m1 \div 4096) * (m2 \div 4096) + (mid \div 4096),
             (mid % 4096) * 4096 + (ll % 4096))

MulLow(s, e, m1, m2, ll) ==
    MulMid(s, e, m1, m2, ll,
           (m1 \div 4096) * (m2 % 4096) + (m1 % 4096) * (m2 \div 4096)
               + (ll \div 4096))

\* a * b.
F32Mul(a, b) ==
    IF IsNaN(a) \/ IsNaN(b) THEN NaN
    ELSE IF IsInf(a) \/ IsInf(b)
         THEN IF IsZero(a) \/ IsZero(b) THEN NaN ELSE Sgn(a) * Sgn(b) * Inf
    ELSE IF IsZero(a) \/ IsZero(b) THEN 0
    ELSE MulLow(Sgn(a) * Sgn(b), ExpOf(a) + ExpOf(b), SigOf(a), SigOf(b),
                (SigOf(a) % 4096) * (SigOf(b) % 4096))

\* One step of long division in base 64: qr = <<quotient, remainder>>.
DivStep(qr, d) == <<qr[1] * 64 + ((qr[2] * 64) \div d), (qr[2] * 64) % d>>

\* The quotient q of 24 or 25 bits and remainder r, rounded.
DivRoundQR(s, e, q, r, m2) ==
    IF q >= Two24
    THEN RoundPack(s, e + 127, q \div 2,
                   q % 2 = 1 /\ (r # 0 \/ (q \div 2) % 2 = 1))
    ELSE RoundPack(s, e + 126, q,
                   2 * r > m2 \/ (2 * r = m2 /\ q % 2 = 1))

DivRound(s, e, qr, m2) == DivRoundQR(s, e, qr[1], qr[2], m2)

\* a / b.
F32Div(a, b) ==
    IF IsNaN(a) \/ IsNaN(b) THEN NaN
    ELSE IF IsInf(a) THEN (IF IsInf(b) THEN NaN ELSE Sgn(a) * Sgn(b) * Inf)
    ELSE IF IsInf(b) THEN 0
    ELSE IF IsZero(b) THEN (IF IsZero(a) THEN NaN ELSE Sgn(a) * Sgn(b) * Inf)
    ELSE IF IsZero(a) THEN 0
    ELSE DivRound(Sgn(a) * Sgn(b), ExpOf(a) - ExpOf(b),
                  DivStep(DivStep(DivStep(DivStep(
                      <<SigOf(a) \div SigOf(b), SigOf(a) % SigOf(b)>>,
                      SigOf(b)), SigOf(b)), SigOf(b)), SigOf(b)),
                  SigOf(b))

\* x shifted right by d bits, the bits shifted out kept as a sticky low bit.
ShiftSticky(x, d) ==
    IF d = 0 THEN x
    ELSE IF d >= 30 THEN 1
    ELSE IF x % Pow2(d) # 0 /\ (x \div Pow2(d)) % 2 = 0
    THEN (x \div Pow2(d)) + 1
    ELSE x \div Pow2(d)

\* <<s, e>> with s brought into [2^26, 2^27), 0 < s < 2^27: s is shifted
\* left by 16, 8, 4, 2 and 1 bits where there is room.
NormUp1(p) == IF p[1] < 2^26 THEN <<p[1] * 2, p[2] - 1>> ELSE p
NormUp2(p) == NormUp1(IF p[1] < 2^25 THEN <<p[1] * 4, p[2] - 2>> ELSE p)
NormUp4(p) == NormUp2(IF p[1] < 2^23 THEN <<p[1] * 16, p[2] - 4>> ELSE p)
NormUp8(p) == NormUp4(IF p[1] < 2^19 THEN <<p[1] * 256, p[2] - 8>> ELSE p)
NormUp(s, e) ==
    NormUp8(IF s < 2^11 THEN <<s * 65536, e - 16>> ELSE <<s, e>>)

\* hi + lo where |hi| >= |lo|, both finite and not zero.  The significands
\* carry three guard bits.
AddRound(hi, s) ==
    IF s = 0 THEN 0
    ELSE GuardPack(Sgn(hi), IF s >= 2^27
                            THEN <<ShiftSticky(s, 1), ExpOf(hi) + 1>>
                            ELSE NormUp(s, ExpOf(hi)))

AddOrdered(hi, lo) ==
    AddRound(hi,
        SigOf(hi) * 8
        + Sgn(hi) * Sgn(lo)
          * ShiftSticky(SigOf(lo) * 8, ExpOf(hi) - ExpOf(lo)))

\* a + b.
F32Add(a, b) ==
    IF IsNaN(a) \/ IsNaN(b) THEN NaN
    ELSE IF IsInf(a) THEN (IF IsInf(b) /\ a # b THEN NaN ELSE a)
    ELSE IF IsInf(b) THEN b
    ELSE IF IsZero(a) THEN (IF IsZero(b) THEN 0 ELSE b)
    ELSE IF IsZero(b) THEN a
    ELSE AddOrdered(IF Abs(a) >= Abs(b) THEN a ELSE b,
                    IF Abs(a) >= Abs(b) THEN b ELSE a)

F32Sub(a, b) == F32Add(a, F32Neg(b))

\* The integer square root of a 48-bit radicand, two bits at a time.  st
\* is <<j, rem, root>>: the remainder and the root after j pairs of bits;
\* m3 holds the radicand's top 26 bits, the other bits are zero.
SqrtBit(j, rem, root) ==
    IF rem >= root * 4 + 1
    THEN <<j + 1, rem - (root * 4 + 1), root * 2 + 1>>
    ELSE <<j + 1, rem, root * 2>>

SqrtStep(st, m3) ==
    SqrtBit(st[1],
            st[2] * 4 + (IF st[1] <= 12
                         THEN (m3 \div Pow2(2 * (12 - st[1]))) % 4 ELSE 0),
            st[3])

\* n steps, the first half of them before the second.
RECURSIVE SqrtIter(_, _, _)
SqrtIter(st, m3, n) ==
    Then(st,
    IF n = 1 THEN SqrtStep(st, m3)
    ELSE SqrtIter(SqrtIter(st, m3, n \div 2), m3, n - n \div 2))

\* The square root of m2 * 2^e2, e2 odd.
SqrtRound(e2, st) ==
    RoundPack(1, ((e2 - 23) \div 2) + 150, st[3], st[2] > st[3])

SqrtPack(m2, e2) == SqrtRound(e2, SqrtIter(<<0, 0, 0>>, m2 * 2, 24))

\* sqrt(a); the square root of a negative number is a NaN.
F32Sqrt(a) ==
    IF IsNaN(a) THEN NaN
    ELSE IF IsZero(a) THEN 0
    ELSE IF a < 0 THEN NaN
    ELSE IF IsInf(a) THEN Inf
    ELSE SqrtPack(IF (ExpOf(a) - 150) % 2 = 1 THEN SigOf(a) ELSE SigOf(a) * 2,
                  IF (ExpOf(a) - 150) % 2 = 1 THEN ExpOf(a) - 150
                  ELSE ExpOf(a) - 151)

\* <<s, e>> with s brought below 2^27, the bits shifted out kept sticky.
RECURSIVE NormDown(_, _)
NormDown(s, e) == IF s < 2^27 THEN <<s, e>> ELSE NormDown(ShiftSticky(s, 1), e + 1)

\* The f32 nearest to the integer n: `n as f32`.
IntToF32(n) ==
    IF n = 0 THEN 0
    ELSE GuardPack(Sgn(n), IF Abs(n) >= 2^27 THEN NormDown(Abs(n), 153)
                           ELSE NormUp(Abs(n), 153))

\* The integer nearest to x, for |x| < 2^24 (halves away from zero).
F32Round(x) ==
    IF IsZero(x) \/ 150 - ExpOf(x) > 24 THEN 0
    ELSE IF 150 - ExpOf(x) <= 0 THEN Sgn(x) * SigOf(x) * Pow2(ExpOf(x) - 150)
    ELSE Sgn(x) * ((SigOf(x) + Pow2(149 - ExpOf(x))) \div Pow2(150 - ExpOf(x)))

\* x * 2^k.
F32Scale(x, k) ==
    IF IsNaN(x) \/ IsInf(x) \/ IsZero(x) THEN x
    ELSE RoundPack(Sgn(x), ExpOf(x) + k, SigOf(x), FALSE)

\* The f32 literals 1.0, 2.0 and 0.5.
One == 1065353216
TwoF == 1073741824
Half == 1056964608
\* ln 2 in two parts, 355/512 and -2.121944e-4: the high part is short
\* enough for k * Ln2Hi to be exact.
Ln2Hi == 1060208640
Ln2Lo == -962494592
\* 1 / ln 2 and ln 10.
Log2E == 1069066811
Ln10 == 1075010957
\* The series' coefficients: ExpC[k] is 1/k! for k = 1..7, LnC[k] is
\* 1/(2k+1) for k = 1..4.
ExpC == <<1065353216, 1056964608, 1042983595, 1026206379, 1007192201,
          985008993, 961547521>>
LnC == <<1051372203, 1045220557, 1041385765, 1038323257>>
\* 89.0 and -88.0: beyond them e^x is infinite, or flushed to zero.
ExpHi == 1118961664
ExpLo == -1118830592

\* One step of Horner's rule: c + x * p.
Horner(x, c, p) ==
    Then(p,
    F32Add(c, F32Mul(x, p)))

\* exp(r) for |r| <= ln(2)/2: the Taylor polynomial of degree 7.
ExpPoly(r) ==
    Horner(r, One, Horner(r, One, Horner(r, ExpC[2], Horner(r, ExpC[3],
    Horner(r, ExpC[4], Horner(r, ExpC[5], Horner(r, ExpC[6], ExpC[7])))))))

\* e^x = 2^k e^r with x = k ln 2 + r.
ExpReduce(x, kf) ==
    Then(kf,
    F32Sub(F32Sub(x, F32Mul(kf, Ln2Hi)), F32Mul(kf, Ln2Lo)))
ExpReduced(r, k) ==
    Then(r,
    F32Scale(ExpPoly(r), k))

ExpScaled(x, k) ==
    Then(k,
    ExpReduced(ExpReduce(x, IntToF32(k)), k))

\* x.exp(): e^x.
F32Exp(x) ==
    IF IsNaN(x) THEN NaN
    ELSE IF x >= ExpHi THEN Inf
    ELSE IF x <= ExpLo THEN 0
    ELSE ExpScaled(x, F32Round(F32Mul(x, Log2E)))

\* ln(2^e m) for m in [sqrt(1/2), sqrt(2)):
\* ln m = 2 atanh(s) with s = (m - 1) / (m + 1).
LnPoly(z) ==
    Then(z,
    Horner(z, One, Horner(z, LnC[1], Horner(z, LnC[2],
    Horner(z, LnC[3], LnC[4])))))

LnSeries(s, ef) ==
    Then(s, Then(ef,
    F32Add(F32Add(F32Mul(ef, Ln2Hi),
                  F32Mul(F32Mul(TwoF, s), LnPoly(F32Mul(s, s)))),
           F32Mul(ef, Ln2Lo))))

LnOf(m, e) == LnSeries(F32Div(F32Sub(m, One), F32Add(m, One)), IntToF32(e))

\* x.ln().
F32Ln(x) ==
    IF IsNaN(x) THEN NaN
    ELSE IF IsZero(x) THEN -Inf
    ELSE IF x < 0 THEN NaN
    ELSE IF IsInf(x) THEN Inf
    ELSE LnOf((IF SigOf(x) > 11863283 THEN 126 ELSE 127) * Two23
                  + (SigOf(x) - Two23),
              ExpOf(x) - (IF SigOf(x) > 11863283 THEN 126 ELSE 127))

\* x.powf(2.0) and 10.0f32.powf(a).
Sq(x) == F32Mul(x, x)
F32Pow10(a) == F32Exp(F32Mul(a, Ln10))

(***************************************************************************)
(* glicko.rs: the Classic model.  A rating is [r, rd].                     *)
(***************************************************************************)
\* std::f32::consts::PI
PI == 1078530011
\* The f32 literals 30.0, 50.0, 350.0, 400.0, 1500.0, 3.0, 5.0, 365.0.
F30 == 1106247680
F50 == 1112014848
F350 == 1135542272
F400 == 1137180672
F1500 == 1153138688
Three == 1077936128
Five == 1084227584
F365 == 1136033792

\* const DAYS_UNTIL_UNRATED: f32 = 5.0 * 365.0
DAYS_UNTIL_UNRATED == F32Mul(Five, F365)
\* const C_2: f32 = (350.0 * 350.0 - 50.0 * 50.0) / DAYS_UNTIL_UNRATED
C_2 == F32Div(F32Sub(F32Mul(F350, F350), F32Mul(F50, F50)),
              DAYS_UNTIL_UNRATED)
\* const Q: f32 = 0.0057565
Q == 1002217734

GlickoRatingNew == [r |-> F1500, rd |-> F350]

G1CalcG(rd) ==
    F32Div(One, F32Sqrt(F32Add(One,
        F32Div(F32Mul(F32Mul(Three, Sq(Q)), Sq(rd)), Sq(PI)))))

G1CalcE(rd, r1, r2) ==
    F32Div(One, F32Add(One,
        F32Pow10(F32Div(F32Mul(F32Neg(G1CalcG(rd)), F32Sub(r2, r1)), F400))))

G1CalcExpect(rd1, rd2, r1, r2) ==
    G1CalcE(F32Sqrt(F32Add(Sq(rd1), Sq(rd2))), r1, r2)

\* calc_new_rd without the cap at 350.
G1CalcNewRdUncapped(self, days) ==
    F32Sqrt(F32Add(Sq(self.rd), F32Mul(days, C_2)))

G1CalcNewRd(self, days) ==
    F32Min(F32Sqrt(F32Add(Sq(self.rd), F32Mul(days, C_2))), F350)

\* calc_days.  Times are whole seconds; the number of days between two
\* is seconds / 86400 computed in f64 and then cast to f32.  The feed's
\* times in this model are whole days apart, for which that quotient and
\* the f32 quotient below are the same whole number.
SecondsPerDay == 24 * 60 * 60
\* 86400.0
F86400 == 1202241536
CalcDays(old, now) == F32Div(IntToF32(now - old), F86400)

\* GlickoRating::expect; opponent is a Player.
G1Expect(self, old_time, result_time, opponent) ==
    G1CalcExpect(G1CalcNewRd(opponent.g1rating,
                             CalcDays(opponent.mtime, result_time)),
                 G1CalcNewRd(self, CalcDays(old_time, result_time)),
                 opponent.g1rating.r, self.r)

\* GlickoRating::update_with_result: the new [r, rd].  Its statements in
\* order: the decayed deviations; e and g; d_2 and inv, the sum
\* 1.0 / pre_rd_me^2 + 1.0 / d_2; q_mul, new_rating and new_rd.
G1Finish(self, score, e, g, inv) ==
    Then(inv,
    [r  |-> F32Add(self.r, F32Mul(F32Mul(F32Div(Q, inv), g), F32Sub(score, e))),
     rd |-> F32Max(F32Sqrt(F32Div(One, inv)), F30)])

G1Variance(self, score, pre_rd_me, e, g) ==
    Then(e, Then(g,
    G1Finish(self, score, e, g,
        F32Add(F32Div(One, Sq(pre_rd_me)),
               F32Div(One, F32Div(One, F32Mul(F32Mul(F32Mul(Sq(Q), Sq(g)), e),
                                              F32Sub(One, e))))))))

G1Decayed(self, score, opponent, pre_rd_me, pre_rd_his) ==
    Then(pre_rd_me, Then(pre_rd_his,
    G1Variance(self, score, pre_rd_me,
               G1CalcE(pre_rd_his, opponent.g1rating.r, self.r),
               G1CalcG(pre_rd_his))))

G1UpdateWithResult(self, score, old_time, result_time, opponent) ==
    G1Decayed(self, score, opponent,
              G1CalcNewRd(self, CalcDays(old_time, result_time)),
              G1CalcNewRd(opponent.g1rating,
                          CalcDays(opponent.mtime, result_time)))

(***************************************************************************)
(* glicko2.rs: the Iterative model.  A rating is [mu, phi, sigma].         *)
(***************************************************************************)
\* const TAU: f32 = 0.75, the scale 173.7178 and VOLATILITY = 0.06
TAU == 1061158912
QF == 1127069634
VOLATILITY == 1031127695

Glicko2RatingNew == [mu |-> 0, phi |-> F32Div(F350, QF), sigma |-> VOLATILITY]

G2CalcG(phi) ==
    F32Div(One, F32Sqrt(F32Add(One, F32Div(F32Mul(Three, Sq(phi)), Sq(PI)))))

G2CalcE(phi, r1, r2) ==
    F32Div(One, F32Add(One,
        F32Exp(F32Mul(F32Neg(G2CalcG(phi)), F32Sub(r2, r1)))))

G2CalcExpect(rd1, rd2, r1, r2) ==
    G2CalcE(F32Sqrt(F32Add(Sq(rd1), Sq(rd2))), r1, r2)

\* Glicko2Rating::expect; opponent is a Player.
G2Expect(self, opponent) ==
    G2CalcExpect(F32Sqrt(F32Add(Sq(opponent.g2rating.phi),
                                Sq(opponent.g2rating.sigma))),
                 F32Sqrt(F32Add(Sq(self.phi), Sq(self.sigma))),
                 opponent.g2rating.mu, self.mu)

\* The first statements of update_with_result, e, g, v, delta, orig_phi
\* and a: what the closure f captures.
VolatilityEnvV(self, score, e, g, v) ==
    Then(v,
    [e |-> e, g |-> g, v |-> v,
     delta |-> F32Mul(F32Mul(v, g), F32Sub(score, e)),
     orig_phi |-> self.phi, a |-> F32Ln(Sq(self.sigma))])

VolatilityEnvEG(self, score, e, g) ==
    Then(e, Then(g,
    VolatilityEnvV(self, score, e, g,
                   F32Div(One, F32Mul(F32Mul(Sq(g), e), F32Sub(One, e))))))

VolatilityEnv(self, score, opp) ==
    VolatilityEnvEG(self, score, G2CalcE(opp.phi, opp.mu, self.mu),
                    G2CalcG(opp.phi))

\* The closure f of update_with_result, with its captured values in c;
\* ex is x.exp().
VolatilityFx(c, x, ex) ==
    Then(ex,
    F32Sub(F32Div(F32Mul(ex, F32Sub(F32Sub(F32Sub(Sq(c.delta), Sq(c.orig_phi)),
                                           c.v), ex)),
                  F32Mul(TwoF, Sq(F32Add(F32Add(Sq(c.orig_phi), c.v), ex)))),
           F32Div(F32Sub(x, c.a), Sq(TAU))))

VolatilityF(c, x) ==
    Then(x,
    VolatilityFx(c, x, F32Exp(x)))

\* The loop  while f(a - k * TAU) < 0.0 { k += 1.0 } .  The program sets no
\* limit on k; the model stops at MaxBracketSteps and says so in capped.
MaxBracketSteps == 4

\* The loop's test with fb = f(a - k * TAU), and the loop.
RECURSIVE BracketLoop(_, _)
BracketTest(c, k, fb) ==
    Then(fb,
    IF F32Lt(fb, 0)
    THEN IF k >= MaxBracketSteps
         THEN [k |-> k, fb |-> fb, capped |-> TRUE]
         ELSE BracketLoop(c, k + 1)
    ELSE [k |-> k, fb |-> fb, capped |-> FALSE])

BracketLoop(c, k) ==
    BracketTest(c, k, VolatilityF(c, F32Sub(c.a, F32Mul(IntToF32(k), TAU))))

\* a - k * TAU after the loop l.
BracketEnd(c, l) ==
    Then(l,
    [b |-> F32Sub(c.a, F32Mul(IntToF32(l.k), TAU)),
     looped |-> TRUE, k |-> l.k, fb |-> l.fb, capped |-> l.capped])

\* let b = if delta^2 > orig_phi^2 + v { ... } else { ... }.  looped says
\* which branch was taken; k and fb are the loop's last k and f(a - k TAU).
BracketB(c) ==
    IF F32Gt(Sq(c.delta), F32Add(Sq(c.orig_phi), c.v))
    THEN [b |-> F32Ln(F32Sub(F32Sub(Sq(c.delta), Sq(c.orig_phi)), c.v)),
          looped |-> FALSE, k |-> 0, fb |-> 0, capped |-> FALSE]
    ELSE BracketEnd(c, BracketLoop(c, 1))

\* SimpleConvergency { eps: 0.00001, max_iter: 30 }
EPS == 925353388
MAX_ITER == 30

IsRootFound(y) == F32Lt(F32Abs(y), F32Abs(EPS))
IsConverged(x1, x2) == F32Lt(F32Abs(F32Sub(x1, x2)), F32Abs(EPS))

\* find_root_regula_falsi(a, b, &f, &mut convergency): the false-position
\* search with the Illinois modification, as the roots crate runs it.
\* st is [res, root, why, x1, y1, x2, y2, edge, iter]; res is "Running"
\* while the loop runs and then the outcome: "Ok" (Ok(root)) or the Err's
\* name; why names the return statement that ended the search.
RegulaFalsiEnd(st, res, root, why) ==
    [st EXCEPT !.res = res, !.root = root, !.why = why]

\* The end of a turn that moved an end of the bracket: the iteration count.
RegulaFalsiCount(nxt) ==
    Then(nxt,
    IF nxt.iter >= MAX_ITER
    THEN RegulaFalsiEnd(nxt, "NoConvergency", NaN, "max_iter")
    ELSE nxt)

\* A turn of the loop from the new point x and y = f(x).
RegulaFalsiNext(st, x, y) ==
    Then(y,
    IF IsRootFound(y) THEN RegulaFalsiEnd(st, "Ok", x, "is_root_found")
    ELSE IF F32Gt(F32Mul(y, st.y1), 0)
    THEN RegulaFalsiCount(
             [st EXCEPT !.x1 = x, !.y1 = y,
                        !.y2 = IF st.edge = "EdgeX1"
                               THEN F32Div(st.y2, TwoF) ELSE st.y2,
                        !.edge = "EdgeX1", !.iter = st.iter + 1])
    ELSE IF F32Gt(F32Mul(y, st.y2), 0)
    THEN RegulaFalsiCount(
             [st EXCEPT !.x2 = x, !.y2 = y,
                        !.y1 = IF st.edge = "EdgeX2"
                               THEN F32Div(st.y1, TwoF) ELSE st.y1,
                        !.edge = "EdgeX2", !.iter = st.iter + 1])
    ELSE RegulaFalsiEnd(st, "Ok", x, "no_sign"))

\* One turn of the loop: the new point x, the test of convergence, f(x).
RegulaFalsiX(c, st, x) ==
    Then(x,
    IF IsConverged(st.x1, st.x2)
    THEN RegulaFalsiEnd(st, "Ok", x, "is_converged")
    ELSE RegulaFalsiNext(st, x, VolatilityF(c, x)))

RegulaFalsiStep(c, st) ==
    IF st.res # "Running" THEN st
    ELSE RegulaFalsiX(c, st,
             F32Div(F32Sub(F32Mul(st.x1, st.y2), F32Mul(st.x2, st.y1)),
                    F32Sub(st.y2, st.y1)))

\* n turns of the loop, the first half of them before the second.
RECURSIVE RegulaFalsiLoop(_, _, _)
RegulaFalsiLoop(c, st, n) ==
    Then(st,
    IF n = 1 THEN RegulaFalsiStep(c, st)
    ELSE RegulaFalsiLoop(c, RegulaFalsiLoop(c, st, n \div 2), n - n \div 2))

\* The statements before the loop, from the ordered ends and f at them.
RegulaFalsiStart(c, x1, y1, x2, y2) ==
    Then(y2,
    IF IsRootFound(y1)
    THEN [res |-> "Ok", root |-> x1, why |-> "is_root_found", x1 |-> x1,
          y1 |-> y1, x2 |-> x2, y2 |-> y2, edge |-> "NoEdge", iter |-> 0]
    ELSE IF IsRootFound(y2)
    THEN [res |-> "Ok", root |-> x2, why |-> "is_root_found", x1 |-> x1,
          y1 |-> y1, x2 |-> x2, y2 |-> y2, edge |-> "NoEdge", iter |-> 0]
    ELSE IF F32Gt(F32Mul(y1, y2), 0)
    THEN [res |-> "NoBracketing", root |-> NaN, why |-> "no_bracket",
          x1 |-> x1, y1 |-> y1, x2 |-> x2, y2 |-> y2, edge |-> "NoEdge",
          iter |-> 0]
    ELSE RegulaFalsiLoop(c, [res |-> "Running", root |-> NaN,
                             why |-> "running", x1 |-> x1, y1 |-> y1,
                             x2 |-> x2, y2 |-> y2, edge |-> "NoEdge",
                             iter |-> 0], MAX_ITER))

\* f at the ordered ends x1 <= x2; f(x2) is not computed when f(x1) is
\* already a root.
RegulaFalsiY1(c, x1, y1, x2) ==
    Then(y1,
    IF IsRootFound(y1) THEN RegulaFalsiStart(c, x1, y1, x2, 0)
    ELSE RegulaFalsiStart(c, x1, y1, x2, VolatilityF(c, x2)))

RegulaFalsiEnds(c, x1, x2) == RegulaFalsiY1(c, x1, VolatilityF(c, x1), x2)

FindRootRegulaFalsi(c, a, b) ==
    IF F32Gt(a, b) THEN RegulaFalsiEnds(c, b, a) ELSE RegulaFalsiEnds(c, a, b)

\* The last statements of Glicko2Rating::update_with_result, from the
\* root: sigma, then pre_phi and phi, then mu.
G2FinishPhi(self, score, c, sigma, phi) ==
    Then(phi,
    [mu    |-> F32Add(self.mu,
                      F32Mul(F32Mul(Sq(phi), c.g), F32Sub(score, c.e))),
     phi   |-> phi,
     sigma |-> sigma])

G2FinishSigma(self, score, c, sigma) ==
    Then(sigma,
    G2FinishPhi(self, score, c, sigma,
        F32Div(One, F32Sqrt(F32Add(
            F32Div(One, Sq(F32Sqrt(F32Add(Sq(c.orig_phi), Sq(sigma))))),
            F32Div(One, c.v))))))

G2Finish(self, score, c, root) ==
    G2FinishSigma(self, score, c, F32Exp(F32Div(root, TwoF)))

\* Glicko2Rating::update_with_result.  unwrap() panics on an Err: then
\* panic is TRUE and self is left as it was.  The outcome keeps, beside
\* the rating, what the search for b (bracket) and the root finder (root)
\* returned.
G2Unwrap(self, score, c, br, root) ==
    IF root.res = "Ok"
    THEN [panic |-> FALSE, rating |-> G2Finish(self, score, c, root.root),
          bracket |-> br, root |-> root]
    ELSE [panic |-> TRUE, rating |-> self, bracket |-> br, root |-> root]

G2Bracket(self, score, c, br) ==
    Then(br,
    G2Unwrap(self, score, c, br, FindRootRegulaFalsi(c, c.a, br.b)))

G2Solve(self, score, c) ==
    Then(c,
    G2Bracket(self, score, c, BracketB(c)))

G2UpdateWithResult(self, score, opponent) ==
    G2Solve(self, score, VolatilityEnv(self, score, opponent.g2rating))

(***************************************************************************)
(* ligcko2.rs: the IterativeContinuous model.  A rating is                 *)
(* [mu, phi, sigma].  calc_g, calc_e, calc_expect, the closure f, the      *)
(* search for b and the root finder's call repeat glicko2.rs word for      *)
(* word (TAU and QF have the same values), so the operators above stand    *)
(* for them.                                                               *)
(***************************************************************************)
\* const RATING_PERIOD_DAYS: f32 = 4.665, the f32 literal 60.0 and
\* MAX_VOLATILITY = 0.1
RATING_PERIOD_DAYS == 1083525038
F60 == 1114636288
MAX_PHI == F32Div(F350, QF)
MIN_PHI == F32Div(F60, QF)
MAX_VOLATILITY == 1036831949

Ligcko2RatingNew == [mu |-> 0, phi |-> F32Div(F350, QF), sigma |-> VOLATILITY]

L2CalcNewPhi(self, days) ==
    F32Min(F32Sqrt(F32Add(Sq(self.phi),
               F32Mul(F32Div(days, RATING_PERIOD_DAYS), Sq(self.sigma)))),
           MAX_PHI)

\* Ligcko2Rating::expect; opponent is a Player.
L2Expect(self, old_time, result_time, opponent) ==
    G2CalcExpect(L2CalcNewPhi(opponent.l2rating,
                              CalcDays(opponent.mtime, result_time)),
                 L2CalcNewPhi(self, CalcDays(old_time, result_time)),
                 opponent.l2rating.mu, self.mu)

\* The last statements of Ligcko2Rating::update_with_result, from the
\* root: sigma, then phi_star and phi, then mu and the two limits.
L2FinishPhi(self, score, c, sigma, phi) ==
    Then(phi,
    [mu    |-> F32Add(self.mu,
                      F32Mul(F32Mul(Sq(phi), c.g), F32Sub(score, c.e))),
     phi   |-> F32Max(phi, MIN_PHI),
     sigma |-> F32Min(sigma, MAX_VOLATILITY)])

L2FinishSigma(self, score, days_me, c, sigma) ==
    Then(sigma,
    L2FinishPhi(self, score, c, sigma,
        F32Div(One, F32Sqrt(F32Add(
            F32Div(One, Sq(F32Sqrt(F32Add(Sq(c.orig_phi),
                F32Mul(F32Div(days_me, RATING_PERIOD_DAYS), Sq(sigma)))))),
            F32Div(One, c.v))))))

L2Finish(self, score, days_me, c, root) ==
    L2FinishSigma(self, score, days_me, c, F32Exp(F32Div(root, TwoF)))

\* Ligcko2Rating::update_with_result.
L2Unwrap(self, score, days_me, c, br, root) ==
    IF root.res = "Ok"
    THEN [panic |-> FALSE,
          rating |-> L2Finish(self, score, days_me, c, root.root),
          bracket |-> br, root |-> root]
    ELSE [panic |-> TRUE, rating |-> self, bracket |-> br, root |-> root]

L2Bracket(self, score, days_me, c, br) ==
    Then(br,
    L2Unwrap(self, score, days_me, c, br,
             FindRootRegulaFalsi(c, c.a, br.b)))

L2Solve(self, score, days_me, c) ==
    Then(days_me, Then(c,
    L2Bracket(self, score, days_me, c, BracketB(c))))

L2UpdateWithResult(self, score, old_time, result_time, opponent) ==
    L2Solve(self, score, CalcDays(old_time, result_time),
            VolatilityEnv(self, score, opponent.l2rating))

(***************************************************************************)
(* playerdb.rs: players, statistics and the store.  A time is a whole      *)
(* number of seconds.  An Outcome is "White" or "Black" (Decisive, with    *)
(* the winner) or "Draw"; "None" is an Option<Outcome> that is None.       *)
(***************************************************************************)
\* Player::new with the time the program started in place of mtime.
PlayerNewAtStart(mtime) ==
    [g1rating |-> GlickoRatingNew, g2rating |-> Glicko2RatingNew,
     l2rating |-> Ligcko2RatingNew, mtime |-> 0]

PlayerNew(mtime) ==
    [g1rating |-> GlickoRatingNew, g2rating |-> Glicko2RatingNew,
     l2rating |-> Ligcko2RatingNew, mtime |-> mtime]

\* let score = match result { ... }
Score(color, result) ==
    IF result = "Draw" THEN Half ELSE IF result = color THEN One ELSE 0

\* The ternary expected score with ties given to the player.
TernaryExpectedTies(mine, his) ==
    IF F32Lt(mine, his) THEN 0 ELSE One

\* The ternary expected score, and whether the score was predicted.
TernaryExpected(mine, his) ==
    IF F32Gt(mine, his) THEN One ELSE IF F32Lt(mine, his) THEN 0 ELSE Half

TernaryExpectedElo(white_rating, black_rating) ==
    IF white_rating > black_rating THEN One
    ELSE IF white_rating < black_rating THEN 0 ELSE Half

Predicted(score, expected_score) ==
    IF F32Lt(F32Abs(F32Sub(score, expected_score)), Half) THEN 1 ELSE 0

\* The mse_accum fields are f64 sums of squared f32 errors.  The model
\* keeps the terms of each sum, in the order they were added.
StatsDBNew ==
    [glicko_guess |-> 0, glicko_predicted |-> 0,
     glicko_mse_accum |-> <<>>, glicko_mse_total |-> 0,
     glicko2_guess |-> 0, glicko2_predicted |-> 0,
     glicko2_mse_accum |-> <<>>, glicko2_mse_total |-> 0,
     ligcko2_guess |-> 0, ligcko2_predicted |-> 0,
     ligcko2_mse_accum |-> <<>>, ligcko2_mse_total |-> 0,
     lichess_guess |-> 0, lichess_predicted |-> 0]

\* An Option that is None: no statistics, no ResultUpdate.
NoStats == [none |-> TRUE]
NoUpdate == [none |-> TRUE]

\* The feed ratings' prediction, its guess counter left alone.
RecordLichessNoGuess(stats, score, update) ==
    IF update = NoUpdate THEN stats
    ELSE [stats EXCEPT
            !.lichess_predicted = @ + Predicted(score,
                TernaryExpectedElo(update.white_rating, update.black_rating))]

\* "Lichess' own rating updates": if let Some(update) = update { ... }
RecordLichess(stats, score, update) ==
    IF update = NoUpdate THEN stats
    ELSE [stats EXCEPT
            !.lichess_guess = @ + 1,
            !.lichess_predicted = @ + Predicted(score,
                TernaryExpectedElo(update.white_rating, update.black_rating))]

\* Player::update_with_result, "Record predictions": the new statistics.
RecordPredictions(stats, self, color, score, result_time, opponent, update) ==
    RecordLichess(
        [stats EXCEPT
           !.glicko_guess = @ + 1,
           !.glicko_predicted = @ + Predicted(score,
               TernaryExpected(self.g1rating.r, opponent.g1rating.r)),
           !.glicko_mse_total = @ + 1,
           !.glicko_mse_accum = Append(@, Sq(F32Sub(score,
               G1Expect(self.g1rating, self.mtime, result_time, opponent)))),
           !.glicko2_guess = @ + 1,
           !.glicko2_predicted = @ + Predicted(score,
               TernaryExpected(self.g2rating.mu, opponent.g2rating.mu)),
           !.glicko2_mse_total = @ + 1,
           !.glicko2_mse_accum = Append(@, Sq(F32Sub(score,
               G2Expect(self.g2rating, opponent)))),
           !.ligcko2_guess = @ + 1,
           !.ligcko2_predicted = @ + Predicted(score,
               TernaryExpected(self.l2rating.mu, opponent.l2rating.mu)),
           !.ligcko2_mse_total = @ + 1,
           !.ligcko2_mse_accum = Append(@, Sq(F32Sub(score,
               L2Expect(self.l2rating, self.mtime, result_time, opponent))))],
        score, update)

\* Update ratings, leaving mtime as it was.
UpdateRatingsKeepMtime(self, result_time, stats, g1, g2, l2) ==
    IF l2.panic THEN [panic |-> TRUE, player |-> self, stats |-> stats]
    ELSE [panic |-> FALSE, stats |-> stats,
          player |-> [g1rating |-> g1, g2rating |-> g2.rating,
                      l2rating |-> l2.rating, mtime |-> self.mtime],
          g2 |-> g2, l2 |-> l2]

\* Player::update_with_result, "Update ratings": the three updates in
\* order, then mtime.  score and stats are the score and the statistics
\* after "Record predictions".
UpdateRatingsL2(self, result_time, stats, g1, g2, l2) ==
    Then(l2,
    IF l2.panic THEN [panic |-> TRUE, player |-> self, stats |-> stats]
    ELSE [panic |-> FALSE, stats |-> stats,
          player |-> [g1rating |-> g1, g2rating |-> g2.rating,
                      l2rating |-> l2.rating, mtime |-> result_time],
          g2 |-> g2, l2 |-> l2])

UpdateRatingsG2(self, score, result_time, opponent, stats, g1, g2) ==
    Then(g1, Then(g2,
    IF g2.panic THEN [panic |-> TRUE, player |-> self, stats |-> stats]
    ELSE UpdateRatingsL2(self, result_time, stats, g1, g2,
             L2UpdateWithResult(self.l2rating, score, self.mtime,
                                result_time, opponent))))

UpdateRatings(self, score, result_time, opponent, stats) ==
    Then(stats,
    UpdateRatingsG2(self, score, result_time, opponent, stats,
        G1UpdateWithResult(self.g1rating, score, self.mtime, result_time,
                           opponent),
        G2UpdateWithResult(self.g2rating, score, opponent)))

\* Player::update_with_result.  stats and update are the two Options.  The
\* outcome is the player, the statistics, and whether the call panicked
\* (the assert on the color, or an unwrap in a rating update).
PlayerUpdateScore(self, color, score, result_time, opponent, stats, update) ==
    Then(score,
    UpdateRatings(self, score, result_time, opponent,
        IF stats = NoStats THEN NoStats
        ELSE RecordPredictions(stats, self, color, score, result_time,
                               opponent, update)))

PlayerUpdateWithResult(self, color, result, result_time, opponent, stats, update) ==
    IF stats # NoStats /\ update # NoUpdate /\ color # "White"
    THEN [panic |-> TRUE, player |-> self, stats |-> stats]
    ELSE PlayerUpdateScore(self, color, Score(color, result), result_time,
                           opponent, stats, update)

\* The map: a function from the identifiers in the store to their Player.
DbGet(db, key, res_time) ==
    IF key \in DOMAIN db THEN db[key] ELSE PlayerNew(res_time)

\* An insert into a new map.
DbInsertAlone(db, key, entry) == [k \in {key} |-> entry]

DbInsert(db, key, entry) ==
    [k \in DOMAIN db \cup {key} |-> IF k = key THEN entry ELSE db[k]]

\* RatingDB::update with the two inserts in the other order.
UpdateInsertWhiteLast(db, update, white0, black0, w, b) ==
    IF b.panic THEN [panic |-> TRUE, db |-> db, stats |-> w.stats]
    ELSE [panic |-> FALSE, stats |-> w.stats,
          db |-> DbInsert(DbInsert(db, update.black, b.player),
                          update.white, w.player),
          white0 |-> white0, black0 |-> black0,
          white1 |-> w.player, black1 |-> b.player,
          solver |-> [wg2 |-> w.g2, wl2 |-> w.l2, bg2 |-> b.g2,
                      bl2 |-> b.l2]]

\* RatingDB::update from white_entry and black_entry as first bound: the
\* update of white (w), the update of black (b), the two inserts.
UpdateInsert(db, update, white0, black0, w, b) ==
    Then(b,
    IF b.panic THEN [panic |-> TRUE, db |-> db, stats |-> w.stats]
    ELSE [panic |-> FALSE, stats |-> w.stats,
          db |-> DbInsert(DbInsert(db, update.white, w.player),
                          update.black, b.player),
          white0 |-> white0, black0 |-> black0,
          white1 |-> w.player, black1 |-> b.player,
          solver |-> [wg2 |-> w.g2, wl2 |-> w.l2, bg2 |-> b.g2,
                      bl2 |-> b.l2]])

\* RatingDB::update with both updates computed from the entries as they
\* were before the record.
UpdateBlackFromSnapshot(db, update, white0, black0, w) ==
    IF w.panic THEN [panic |-> TRUE, db |-> db, stats |-> w.stats]
    ELSE UpdateInsert(db, update, white0, black0, w,
             PlayerUpdateWithResult(black0, "Black", update.result,
                                    update.datetime, white0, NoStats,
                                    NoUpdate))

UpdateBlack(db, update, white0, black0, w) ==
    Then(w,
    IF w.panic THEN [panic |-> TRUE, db |-> db, stats |-> w.stats]
    ELSE UpdateInsert(db, update, white0, black0, w,
             PlayerUpdateWithResult(black0, "Black", update.result,
                                    update.datetime, w.player, NoStats,
                                    NoUpdate)))

UpdateEntries(db, stats, update, white0, black0) ==
    UpdateBlack(db, update, white0, black0,
        PlayerUpdateWithResult(white0, "White", update.result,
                               update.datetime, black0, stats, update))

\* RatingDB::update.  The outcome is the store and the statistics after the
\* call and whether it panicked; white0, black0 are white_entry and
\* black_entry as first bound, white1 and black1 as inserted, solver the
\* outcomes of the four volatility searches.
RatingDBUpdate(db, stats, update) ==
    IF update.result = "None"
    THEN [panic |-> TRUE, db |-> db, stats |-> stats]
    ELSE UpdateEntries(db, stats, update,
                       DbGet(db, update.white, update.datetime),
                       DbGet(db, update.black, update.datetime))

\* A quotient guarded against a zero denominator: 0 when there is no data.
RatioOrZero(num, den) == [nan |-> FALSE, num |-> num, den |-> den]

\* A quotient of get_stats: num / den in f64, a NaN when both are zero.
Ratio(num, den) == [nan |-> num = 0 /\ den = 0, num |-> num, den |-> den]

\* The quotient mse_accum / mse_total, the sum given by its terms: a NaN
\* when the sum and the count are both zero, or when the sum is a NaN.
MseRatio(terms, total) ==
    [nan |-> \/ total = 0 /\ \A i \in DOMAIN terms : terms[i] = 0
             \/ \E i \in DOMAIN terms : IsNaN(terms[i]),
     num |-> terms, den |-> total]

\* RatingDB::get_stats: what the returned line reports.
GetStats(stats) ==
    [pred_rate    |-> Ratio(100 * stats.glicko_predicted, stats.glicko_guess),
     mse          |-> MseRatio(stats.glicko_mse_accum, stats.glicko_mse_total),
     pred_rate_g2 |-> Ratio(100 * stats.glicko2_predicted, stats.glicko2_guess),
     mse_g2       |-> MseRatio(stats.glicko2_mse_accum,
                               stats.glicko2_mse_total),
     pred_rate_l2 |-> Ratio(100 * stats.ligcko2_predicted, stats.ligcko2_guess),
     mse_l2       |-> MseRatio(stats.ligcko2_mse_accum,
                               stats.ligcko2_mse_total),
     lichess_pred_rate |-> Ratio(100 * stats.lichess_predicted,
                                 stats.lichess_guess)]

(***************************************************************************)
(* main.rs: the records and the driver.                                    *)
(***************************************************************************)
Valid(u) == u.rated /\ u.speed # "Garbage" /\ u.result # "None"
\* useful() without the test of the speed.
UsefulAnySpeed(u) == Valid(u)

Useful(u) == Valid(u) /\ u.speed = "Blitz"

\* The identifiers that appear in the feed, with the rating the feed
\* reports for each (WhiteElo, BlackElo).
Ids == {"a", "b"}
Elo == [a |-> 1600, b |-> 1500]
\* The pairings <<white, black>> of the feed; a record may name one
\* identifier on both sides.
Pairings == {<<"a", "b">>, <<"b", "a">>, <<"a", "a">>}

\* Bounds of the model: records read, files read, and the long idle
\* periods (of IdleDays days) the feed may contain.
MaxGames == 2
MaxFiles == 2
MaxIdles == 1
IdleDays == 7300
LongIdle == IdleDays * SecondsPerDay

\* The records a file can hold next, when its last record was at time t.
\* The feed is chronological.  Blitz games between any two identifiers,
\* now or after a long idle period:
BlitzGames(t) ==
    {[white |-> p[1], black |-> p[2], result |-> r, datetime |-> t + dt,
      rated |-> TRUE, speed |-> "Blitz",
      white_rating |-> Elo[p[1]], black_rating |-> Elo[p[2]]] :
        p \in Pairings, r \in {"White", "Black", "Draw"},
        dt \in {d \in {0, LongIdle} : t + d <= MaxIdles * LongIdle}}

\* and records that are not useful: no Event header, another speed,
\* no settled result.
OtherGames(t) ==
    {[white |-> "a", black |-> "b", result |-> k[3], datetime |-> t,
      rated |-> k[1], speed |-> k[2],
      white_rating |-> Elo["a"], black_rating |-> Elo["b"]] :
        k \in {<<FALSE, "Garbage", "White">>, <<TRUE, "Bullet", "Draw">>,
               <<TRUE, "Garbage", "Black">>, <<TRUE, "Blitz", "None">>}}

VARIABLES
    db,        \* RatingDB.db: the players in the store
    stats,     \* RatingDB.stats
    now,       \* the time of the last record read
    games,     \* records read so far
    files,     \* files finished so far
    napplied,  \* records applied since the statistics were last reset
    last,      \* the last record read and what update did with it
    printed,   \* the last line of statistics printed
    panicked,  \* the program has panicked
    dv         \* calc_new_rd run alone: its input and outcome

vars == <<db, stats, now, games, files, napplied, last, printed, panicked,
          dv>>

Idle == [phase |-> "idle"]

\* let mut db = RatingDB::new();
InitDriver ==
    /\ db = <<>>
    /\ stats = StatsDBNew
    /\ now = 0
    /\ games = 0
    /\ files = 0
    /\ napplied = 0
    /\ last = [applied |-> FALSE]
    /\ printed = [none |-> TRUE]
    /\ panicked = FALSE

Init == InitDriver /\ dv = Idle

\* process_game on the next record of the current file.
ProcessGame ==
    /\ ~panicked
    /\ files < MaxFiles
    /\ games < MaxGames
    /\ \E update \in BlitzGames(now) \cup OtherGames(now) :
          /\ games' = games + 1
          /\ now' = update.datetime
          /\ IF Useful(update)
             THEN \E u \in {RatingDBUpdate(db, stats, update)} :
                      /\ db' = u.db
                      /\ stats' = u.stats
                      /\ panicked' = u.panic
                      /\ napplied' = napplied + 1
                      /\ last' = IF u.panic
                                 THEN [applied |-> FALSE, update |-> update]
                                 ELSE [applied |-> TRUE, update |-> update,
                                       white0 |-> u.white0,
                                       black0 |-> u.black0,
                                       white1 |-> u.white1,
                                       black1 |-> u.black1,
                                       solver |-> u.solver]
             ELSE /\ last' = [applied |-> FALSE, update |-> update]
                  /\ UNCHANGED <<db, stats, panicked, napplied>>
    /\ UNCHANGED <<files, printed, dv>>

\* stats_reset that zeroes the counters and keeps the sums.
StatsResetCounters(self_stats) ==
    [self_stats EXCEPT !.glicko_guess = 0, !.glicko_predicted = 0,
                  !.glicko2_guess = 0, !.glicko2_predicted = 0,
                  !.ligcko2_guess = 0, !.ligcko2_predicted = 0,
                  !.lichess_guess = 0, !.lichess_predicted = 0,
                  !.glicko_mse_total = 0, !.glicko2_mse_total = 0,
                  !.ligcko2_mse_total = 0]

\* RatingDB::stats_reset: self.stats = Mutex::new(StatsDB::new()).
StatsReset(self_stats) == StatsDBNew

\* The end of a file: println!("{}", db.get_stats()); db.stats_reset();
EndOfFile ==
    /\ ~panicked
    /\ files < MaxFiles
    /\ printed' = GetStats(stats)
    /\ stats' = StatsReset(stats)
    /\ napplied' = 0
    /\ files' = files + 1
    /\ UNCHANGED <<db, now, games, last, panicked, dv>>

Next == ProcessGame \/ EndOfFile

Spec == Init /\ [][Next]_vars

(***************************************************************************)
(* The program further into a feed.  The ladder feed is 771 Blitz records, *)
(* all at time 0, among 44 identifiers: pairs of players draw each other   *)
(* thirty times, and newcomers keep beating the best of them, or losing to *)
(* the worst, until they pass them by one unit of mu; ten rounds of this   *)
(* put the best more than 3200 rating points above the worst.  The         *)
(* players below are six of the store's entries after these records (t10a, *)
(* t10b, t5a from the top of the ladder, b10a, b10b, b5a from its bottom). *)
(***************************************************************************)
LadderPlayer(g1, g2, l2) ==
    [g1rating |-> [r |-> g1[1], rd |-> g1[2]],
     g2rating |-> [mu |-> g2[1], phi |-> g2[2], sigma |-> g2[3]],
     l2rating |-> [mu |-> l2[1], phi |-> l2[2], sigma |-> l2[3]],
     mtime |-> 0]

T10a == LadderPlayer(<<1162397901, 1114658464>>,
                     <<1092175390, 1053522727, 1031084185>>,
                     <<1092467482, 1051793093, 1031084166>>)
T10b == LadderPlayer(<<1162397071, 1114592676>>,
                     <<1092174246, 1053491570, 1031083262>>,
                     <<1092466259, 1051776681, 1031083377>>)
T5a == LadderPlayer(<<1158918207, 1114819610>>,
                    <<1083830073, 1053972597, 1031082443>>,
                    <<1084160261, 1051911830, 1031082232>>)
B10a == LadderPlayer(<<-1108274630, 1115694040>>,
                     <<-1090971655, 1054041768, 1031090084>>,
                     <<-1091400195, 1052562898, 1031090578>>)
B10b == LadderPlayer(<<-1108094898, 1115732859>>,
                     <<-1090968191, 1054073288, 1031089750>>,
                     <<-1091396056, 1052620107, 1031090448>>)
B5a == LadderPlayer(<<1143974655, 1115031173>>,
                    <<-1082801067, 1054192008, 1031088467>>,
                    <<-1083367261, 1052067717, 1031088697>>)

\* The store after the ladder feed, as far as the next record sees it: the
\* two entries the feed's identifiers "a" and "b" stand for.
LadderStores ==
    {[a |-> T10b, b |-> B10a], [a |-> B10b, b |-> T10a],
     [a |-> T5a, b |-> B5a], [a |-> B5a, b |-> T10a]}

\* The ladder feed was the first file: its statistics are printed (the
\* model does not keep that line's numbers) and reset, and the next file
\* holds one record.
InitLadder ==
    /\ db \in LadderStores
    /\ stats = StatsDBNew
    /\ now = 0
    /\ games = MaxGames - 1
    /\ files = MaxFiles - 1
    /\ napplied = 0
    /\ last = [applied |-> FALSE]
    /\ printed = [none |-> FALSE, ladder |-> TRUE]
    /\ panicked = FALSE
    /\ dv = Idle

SpecLadder == InitLadder /\ [][Next]_vars

(***************************************************************************)
(* GlickoRating::calc_new_rd alone, on a player idle for some days.        *)
(***************************************************************************)
MinRd == 30
MaxRd == 350
DecayDays == {0, 1, 365, 1825, 3650}

InitDecay ==
    /\ InitDriver
    /\ dv \in {[phase |-> "input", rd |-> IntToF32(n), days |-> d] :
                 n \in MinRd..MaxRd, d \in DecayDays}

\* pre_rd = self.calc_new_rd(days) with days = calc_days(mtime, now).
Decay ==
    /\ dv.phase = "input"
    /\ dv' = [phase |-> "done", rd |-> dv.rd, days |-> dv.days,
              new_rd |-> G1CalcNewRd([r |-> F1500, rd |-> dv.rd],
                                     CalcDays(0, dv.days * SecondsPerDay))]
    /\ UNCHANGED <<db, stats, now, games, files, napplied, last, printed,
                   panicked>>

NextDecay == Decay

SpecDecay == InitDecay /\ [][NextDecay]_vars

(***************************************************************************)
(* The claims.  LastUpdate is the record the last step applied; Settled    *)
(* and Blitz records are those update is called for.                       *)
(***************************************************************************)
\* The player an update leaves, whatever the statistics.
Updated(self, color, update, opponent) ==
    PlayerUpdateWithResult(self, color, update.result, update.datetime,
                           opponent, NoStats, NoUpdate).player

\* C1: in RatingDB::update white is updated against black as it was before
\* the record, and black is then updated against white as it is after
\* white's update of this record, mtime included.
C1_UpdateOrder ==
    last.applied =>
        /\ last.white1 = Updated(last.white0, "White", last.update, last.black0)
        /\ last.black1 = Updated(last.black0, "Black", last.update, last.white1)
        /\ last.white1.mtime = last.update.datetime

\* A record where the order shows: black updated against white as it was
\* before the record would have ended elsewhere.
C1_Witness ==
    /\ last.applied
    /\ last.update.white # last.update.black
    /\ last.black1 # Updated(last.black0, "Black", last.update, last.white0)

\* C2: after RatingDB::update(record) the store holds an entry for
\* record.white and one for record.black, each with mtime equal to the
\* record's time, after every record of the feed.
C2_BothStored ==
    last.applied =>
        /\ last.update.white \in DOMAIN db
        /\ last.update.black \in DOMAIN db
        /\ db[last.update.white].mtime = last.update.datetime
        /\ db[last.update.black].mtime = last.update.datetime

\* The second record of a feed, after a long idle period, between two
\* players the store already held with an older mtime.
C2_Witness ==
    /\ last.applied
    /\ games = 2
    /\ last.update.white # last.update.black
    /\ last.white0.mtime < last.update.datetime
    /\ last.black0.mtime < last.update.datetime
    /\ db[last.update.white].mtime = last.update.datetime

\* C3: a record naming an identifier the store does not hold is applied
\* without failure, with a new Player for it: Classic 1500 / 350, the two
\* other models mu 0, phi 350/173.7178, sigma 0.06, and mtime the record's
\* time, whatever was applied before; an identifier the store holds is
\* taken as stored, never reset.
C3_Default(t) ==
    [g1rating |-> [r |-> 1153138688, rd |-> 1135542272],
     g2rating |-> [mu |-> 0, phi |-> 1073803740, sigma |-> 1031127695],
     l2rating |-> [mu |-> 0, phi |-> 1073803740, sigma |-> 1031127695],
     mtime |-> t]

C3_Entry(store, key, t) ==
    IF key \in DOMAIN store THEN store[key] ELSE C3_Default(t)

C3_LazyCreation ==
    [][(games' = games + 1 /\ Useful(last'.update)) =>
          /\ ~panicked'
          /\ last'.applied
          /\ last'.white0 = C3_Entry(db, last'.update.white,
                                     last'.update.datetime)
          /\ last'.black0 = C3_Entry(db, last'.update.black,
                                     last'.update.datetime)]_vars

\* A record after a long idle period whose white is new to the store and
\* whose black is not.
C3_Witness ==
    /\ last.applied
    /\ last.update.datetime = LongIdle
    /\ last.white0 = C3_Default(LongIdle)
    /\ last.black0.mtime = 0
    /\ last.black0 # C3_Default(0)

\* C4: statistics are recorded for white only.  Each applied record adds
\* one to the three models' guess counters, to their squared-error counts
\* and to the feed ratings' guess counter, so that each equals the number
\* of records applied since the last reset; a predicted counter is never
\* above its guess counter.
C4_WhiteOnlyStats ==
    /\ stats.glicko_guess = napplied
    /\ stats.glicko2_guess = napplied
    /\ stats.ligcko2_guess = napplied
    /\ stats.lichess_guess = napplied
    /\ stats.glicko_mse_total = napplied
    /\ stats.glicko2_mse_total = napplied
    /\ stats.ligcko2_mse_total = napplied
    /\ Len(stats.glicko_mse_accum) = napplied
    /\ Len(stats.glicko2_mse_accum) = napplied
    /\ Len(stats.ligcko2_mse_accum) = napplied
    /\ stats.glicko_predicted <= stats.glicko_guess
    /\ stats.glicko2_predicted <= stats.glicko2_guess
    /\ stats.ligcko2_predicted <= stats.ligcko2_guess
    /\ stats.lichess_predicted <= stats.lichess_guess

\* Two records applied since the last reset, one of them predicted by the
\* feed ratings and one not.
C4_Witness ==
    /\ napplied = 2
    /\ stats.lichess_guess = 2
    /\ stats.lichess_predicted = 1
    /\ stats.glicko_predicted < 2

\* C7: RatingDB::update is called only for records that are rated, have a
\* settled result and are Blitz games; a record failing one of the three
\* changes neither the store nor the statistics, and the unwrap of the
\* result in update never fails.
C7_Ratable(u) ==
    /\ u.rated
    /\ u.result \in {"White", "Black", "Draw"}
    /\ u.speed = "Blitz"

C7_OnlyUseful ==
    [][games' = games + 1 =>
          /\ last'.applied => C7_Ratable(last'.update)
          /\ ~C7_Ratable(last'.update) =>
                 /\ db' = db
                 /\ stats' = stats
                 /\ ~panicked'
                 /\ ~last'.applied]_vars

\* A rated Bullet game with a settled result read when the store already
\* holds players: it is not applied.
C7_Witness ==
    /\ games = 2
    /\ ~last.applied
    /\ last.update.rated
    /\ last.update.speed = "Bullet"
    /\ last.update.result = "Draw"
    /\ DOMAIN db # {}
    /\ napplied = 1


\* The four volatility solutions of the last applied record: white's and
\* black's, for Glicko2Rating and for Ligcko2Rating.
LastSolutions ==
    {last.solver.wg2, last.solver.wl2, last.solver.bg2, last.solver.bl2}

\* C5: the search for b (decrementing from a by steps of TAU until
\* f(b) >= 0) stops after a bounded number of turns, either with a bracket,
\* f(b) >= 0, or with a defined failure: an update that ran the loop and
\* went on to completion has f(b) >= 0.
C5_BracketOrFailure ==
    last.applied =>
        \A s \in LastSolutions :
            s.bracket.looped =>
                /\ ~s.bracket.capped
                /\ ~IsNaN(s.bracket.fb)
                /\ s.bracket.fb >= 0

\* C6: apply never completes normally with a rating computed from a root
\* the finder did not accept: when a record has been applied, each root
\* was returned because f there is within the tolerance or because the
\* ends of the bracket are within the tolerance of each other.
C6_ConvergedRoot ==
    last.applied =>
        \A s \in LastSolutions :
            /\ s.root.res = "Ok"
            /\ s.root.why \in {"is_root_found", "is_converged"}
            /\ ~IsNaN(s.root.root)


\* pre_rd_me of the last applied record: the player's deviation decayed
\* from its mtime to the record's time.
PreRd(p) == G1CalcNewRd(p.g1rating, CalcDays(p.mtime, last.update.datetime))

RdInRange(rd) == ~IsNaN(rd) /\ F30 <= rd /\ rd <= F350

C9_FiveYearsGive350 ==
    (dv.phase = "done" /\ dv.days = 1825) => dv.new_rd = F350


\* C10: every stored player's Ligcko2Rating has phi within
\* [60/173.7178, 350/173.7178] and sigma at most 0.1.
C10_PhiSigmaRange ==
    \A k \in DOMAIN db :
        /\ ~IsNaN(db[k].l2rating.phi)
        /\ MIN_PHI <= db[k].l2rating.phi
        /\ db[k].l2rating.phi <= MAX_PHI
        /\ ~IsNaN(db[k].l2rating.sigma)
        /\ db[k].l2rating.sigma <= MAX_VOLATILITY


\* Every quotient of a printed line is a NaN.
AllNaN(p) ==
    /\ p.pred_rate.nan
    /\ p.mse.nan
    /\ p.pred_rate_g2.nan
    /\ p.mse_g2.nan
    /\ p.pred_rate_l2.nan
    /\ p.mse_l2.nan
    /\ p.lichess_pred_rate.nan

\* C11: get_stats with no observation recorded since creation or since the
\* last reset does not fail, and every prediction rate and every MSE of
\* the line it returns is a NaN.
C11_NoDataIsNaN ==
    [][(files' = files + 1 /\ napplied = 0) =>
          /\ ~panicked'
          /\ AllNaN(printed')]_vars

\* The line printed at the end of a second file that held no applied
\* record, after a first file that did.
C11_Witness ==
    /\ files = 2
    /\ DOMAIN db # {}
    /\ napplied = 0
    /\ AllNaN(printed)
    /\ printed.pred_rate.den = 0
    /\ printed.mse.den = 0


\* An accumulator in which every counter and every sum is zero.
ZeroStats(s) ==
    /\ s.glicko_guess = 0 /\ s.glicko_predicted = 0
    /\ s.glicko_mse_accum = <<>> /\ s.glicko_mse_total = 0
    /\ s.glicko2_guess = 0 /\ s.glicko2_predicted = 0
    /\ s.glicko2_mse_accum = <<>> /\ s.glicko2_mse_total = 0
    /\ s.ligcko2_guess = 0 /\ s.ligcko2_predicted = 0
    /\ s.ligcko2_mse_accum = <<>> /\ s.ligcko2_mse_total = 0
    /\ s.lichess_guess = 0 /\ s.lichess_predicted = 0

\* C12: stats_reset replaces the whole accumulator by one in which every
\* counter and sum is zero; it runs between two applies, never within
\* one: an apply adds its one observation to the accumulator as the last
\* apply or the last reset left it, so that nothing recorded before a
\* reset is counted after it.
C12_ResetIsWhole ==
    [][/\ files' = files + 1 => ZeroStats(stats') /\ db' = db /\ games' = games
       /\ (games' = games + 1 /\ last'.applied) =>
             /\ files' = files
             /\ stats'.glicko_guess = stats.glicko_guess + 1
             /\ stats'.lichess_guess = stats.lichess_guess + 1
             /\ Len(stats'.glicko_mse_accum) = Len(stats.glicko_mse_accum) + 1
             /\ Len(stats'.glicko2_mse_accum) = Len(stats.glicko2_mse_accum) + 1
             /\ Len(stats'.ligcko2_mse_accum) = Len(stats.ligcko2_mse_accum) + 1
             /\ stats'.glicko_predicted \in
                    {stats.glicko_predicted, stats.glicko_predicted + 1}]_vars

\* A record applied in the first file, the reset, a record applied in the
\* second file, and the reset at its end.
C12_Witness ==
    /\ files = 2
    /\ games = 2
    /\ printed.pred_rate.den = 1
    /\ last.applied
    /\ last.update.datetime = LongIdle
    /\ last.white0.mtime < last.update.datetime
    /\ ZeroStats(stats)


\* White's result is the one the strict comparison of w with b calls:
\* a win when w > b, a loss when w < b, a draw when they are equal.
C13_Called(result, w, b) ==
    \/ result = "White" /\ w > b
    \/ result = "Black" /\ w < b
    \/ result = "Draw" /\ w = b

C13_Count(result, w, b) == IF C13_Called(result, w, b) THEN 1 ELSE 0

C14_Frame ==
    [][/\ \A k \in DOMAIN db :
              /\ k \in DOMAIN db'
              /\ (games' = games + 1 /\ last'.applied
                  /\ k \in {last'.update.white, last'.update.black})
                 \/ db'[k] = db[k]
       /\ Cardinality(DOMAIN db') >= Cardinality(DOMAIN db)
       /\ Cardinality(DOMAIN db') <= Cardinality(DOMAIN db) + 2
       /\ (games' = games + 1 /\ last'.applied) =>
              DOMAIN db' = DOMAIN db \cup {last'.update.white,
                                           last'.update.black}
       /\ ~(games' = games + 1 /\ last'.applied) => db' = db]_vars

\* A record that names "a" twice, applied 7300 days after the record that
\* put "b" in the store: "b" is as that record left it.
C14_Witness ==
    /\ last.applied
    /\ last.update.white = "a"
    /\ last.update.black = "a"
    /\ last.update.datetime = LongIdle
    /\ "b" \in DOMAIN db
    /\ db["b"].mtime = 0
    /\ db["a"].mtime = LongIdle

\* C15: for a record that names one identifier as white and as black,
\* RatingDB::update works on two copies of the player as it was before the
\* record, inserts the white copy and then the black copy under the one
\* key, so that the store holds for it the outcome of the black update
\* only, and the number of players grows by at most 1.
C15_SelfPlay ==
    [][(games' = games + 1 /\ last'.applied
        /\ last'.update.white = last'.update.black) =>
          /\ last'.white0 = IF last'.update.white \in DOMAIN db
                            THEN db[last'.update.white]
                            ELSE C3_Default(last'.update.datetime)
          /\ last'.black0 = last'.white0
          /\ last'.black1 = Updated(last'.black0, "Black", last'.update,
                                    last'.white1)
          /\ db'[last'.update.white] = last'.black1
          /\ DOMAIN db' = DOMAIN db \cup {last'.update.white}
          /\ Cardinality(DOMAIN db') <= Cardinality(DOMAIN db) + 1]_vars

\* A record that names one player twice after which the store holds the
\* black copy, which is not what the white copy became.
C15_Witness ==
    /\ last.applied
    /\ last.update.white = last.update.black
    /\ last.white1 # last.black1
    /\ db[last.update.white] = last.black1
    /\ db[last.update.white] # last.white1

=============================================================================
